---- MODULE Spec2Model ----
(***************************************************************************)
(* pqObjectNaming (QtTesting): names of objects in a QObject tree and the  *)
(* resolution of such names back to objects.                               *)
(*                                                                         *)
(* A QString is a sequence of one-character strings.  An object is a       *)
(* number: 1..MaxObjects are the QObjects of the tree, QApp is the         *)
(* QApplication instance and Null is the null pointer.                     *)
(***************************************************************************)
EXTENDS Integers, Sequences, FiniteSets, TLC

\* ------------------------------------------------------------------ bounds
\* Number of QObjects in the tree (the QApplication instance not counted).
MaxObjects == 3

\* ------------------------------------------------------- program constants
\* matchLimit when PQOBJECTNAMING_MATCH_LIMIT is unset or empty.
DefaultMatchLimit == 20

Null == 0
Nodes == 1..MaxObjects
QApp == MaxObjects + 1
Objects == Nodes \cup {QApp}

\* metaObject()->className() of the modelled classes: one QWidget subclass,
\* one QObject subclass that is no widget, and QApplication.
WidgetClass == <<"W">>
ObjectClass == <<"O">>
AppClass == <<"Q">>

\* What one object of the tree can be: class, objectName(), isVisible().
Kinds ==
  {[cls |-> WidgetClass, name |-> <<>>, vis |-> TRUE],
   [cls |-> WidgetClass, name |-> <<>>, vis |-> FALSE],
   [cls |-> ObjectClass, name |-> <<>>, vis |-> FALSE],
   [cls |-> WidgetClass, name |-> <<"a">>, vis |-> FALSE],
   [cls |-> WidgetClass, name |-> <<"a", "/", "b">>, vis |-> TRUE]}

\* objectName() of the QApplication instance.
AppNames == {<<>>}

\* Values of the environment variable PQOBJECTNAMING_MATCH_LIMIT (<<>>: unset
\* or empty).
MatchLimitEnvs == {<<>>, <<"0">>, <<"1">>}

\* call.env of a call that never read the environment variable.
EnvNotRead == <<"?">>

\* Contents of the caller's QStringList handed to DumpHierarchy.
ResultsInputs == {<<>>, << <<"r">> >>}

VARIABLES
  parent,           \* QObject::parent() of every object of the tree
  children,         \* QObject::children(), in sibling order
  className,        \* metaObject()->className()
  objectName,       \* QObject::objectName()
  visible,          \* QWidget::isVisible() (FALSE for a non-widget)
  appObjectName,    \* objectName() of QApplication::instance()
  topLevelWidgets,  \* QApplication::topLevelWidgets()
  ErrorMessage,     \* the file-scope QString, as a sequence of lines
  call              \* the last call made, its arguments and what it returned

tree == <<parent, children, className, objectName, visible, appObjectName,
          topLevelWidgets>>
vars == <<parent, children, className, objectName, visible, appObjectName,
          topLevelWidgets, ErrorMessage, call>>

\* ----------------------------------------------------------------- QString
Replace(s, from, to) ==
  [i \in 1..Len(s) |-> IF s[i] = from THEN to ELSE s[i]]

Digits == <<"0", "1", "2", "3", "4", "5", "6", "7", "8", "9">>

RECURSIVE Number(_)
Number(n) ==
  IF n < 10 THEN <<Digits[n + 1]>>
  ELSE Number(n \div 10) \o <<Digits[(n % 10) + 1]>>

DigitValue(c) == CHOOSE d \in 0..9 : Digits[d + 1] = c
IsDigit(c) == \E d \in 1..10 : Digits[d] = c

RECURSIVE DecimalValue(_)
DecimalValue(s) ==
  IF s = <<>> THEN 0
  ELSE 10 * DecimalValue(SubSeq(s, 1, Len(s) - 1)) + DigitValue(s[Len(s)])

\* QString::toInt(): the number, or 0 when the string is no number.
ToInt(s) ==
  LET neg == s # <<>> /\ s[1] = "-"
      digits == IF neg THEN Tail(s) ELSE s
  IN IF digits = <<>> \/ \E i \in 1..Len(digits) : ~IsDigit(digits[i]) THEN 0
     ELSE IF neg THEN 0 - DecimalValue(digits) ELSE DecimalValue(digits)

RECURSIVE Split(_)
\* QString::split("/"): empty parts are kept.
Split(s) ==
  IF \A i \in 1..Len(s) : s[i] # "/" THEN <<s>>
  ELSE LET i == CHOOSE k \in 1..Len(s) :
                  s[k] = "/" /\ \A m \in 1..(k - 1) : s[m] # "/"
       IN <<SubSeq(s, 1, i - 1)>> \o Split(SubSeq(s, i + 1, Len(s)))

\* names[names.size() - 1] of Name.split("/"): the text after the last '/'.
LastSegment(Name) == Split(Name)[Len(Split(Name))]

\* ------------------------------------------------------------ the QObjects
Parent(o) == IF o = QApp THEN Null ELSE parent[o]
Children(o) == IF o = QApp THEN <<>> ELSE children[o]
ClassName(o) == IF o = QApp THEN AppClass ELSE className[o]
ObjectName(o) == IF o = QApp THEN appObjectName ELSE objectName[o]
\* qobject_cast<QWidget*>(o) is not null
IsWidget(o) == ClassName(o) = WidgetClass
\* qobject_cast<QApplication*>(o) is not null
IsApplication(o) == o = QApp
IsVisible(o) == o # QApp /\ visible[o]

\* The siblings InternalGetNameAsUnnamed walks.
Siblings(o) ==
  IF Parent(o) # Null THEN children[Parent(o)] ELSE topLevelWidgets

\* The part of the list the counting loop visits before it breaks at the
\* object (all of it when the object is not in the list).
Before(list, o) ==
  IF \E i \in 1..Len(list) : list[i] = o
  THEN SubSeq(list, 1, (CHOOSE i \in 1..Len(list) :
                          list[i] = o /\ \A m \in 1..(i - 1) : list[m] # o) - 1)
  ELSE list

Preceding(o) == Before(Siblings(o), o)

\* Counted, were the loop not to test objectName().isEmpty().
CountedWithNamed(list, o) ==
  {i \in 1..Len(list) : ClassName(list[i]) = ClassName(o)}

\* The siblings of the object's type with an empty objectName that the loop
\* counts, as indices of the list it visits.
Counted(list, o) ==
  {i \in 1..Len(list) :
     ClassName(list[i]) = ClassName(o) /\ ObjectName(list[i]) = <<>>}

visible_index(list, counted) ==
  Cardinality({i \in counted : IsWidget(list[i]) /\ IsVisible(list[i])})

invisible_index(list, counted) ==
  Cardinality({i \in counted : ~(IsWidget(list[i]) /\ IsVisible(list[i]))})

\* Synthesized, were it to write the 0 for every object that is no visible
\* widget.
SynthesizedZeroForObjects(o, visible_i, invisible_i) ==
  LET prefix == IF IsWidget(o) /\ IsVisible(o) THEN Number(1) ELSE Number(0)
      index == IF IsWidget(o) /\ IsVisible(o) THEN visible_i ELSE invisible_i
  IN Replace(prefix \o ClassName(o) \o Number(index), "/", "|")

\* InternalGetNameAsUnnamed after its loop over the siblings.
Synthesized(o, visible_i, invisible_i) ==
  LET prefix == IF IsWidget(o)
                THEN (IF IsVisible(o) THEN Number(1) ELSE Number(0))
                ELSE <<>>
      index == IF IsWidget(o) /\ IsVisible(o) THEN visible_i ELSE invisible_i
  IN Replace(prefix \o ClassName(o) \o Number(index), "/", "|")

NameAmong(list, o) ==
  Synthesized(o, visible_index(list, Counted(list, o)),
              invisible_index(list, Counted(list, o)))

InternalGetNameAsUnnamed(o) == NameAmong(Preceding(o), o)

\* Escaped without its replace("/", "|").
NotEscaped(o, named) ==
  IF IsApplication(o) THEN named \o <<"-", "a", "p", "p">> ELSE named

\* InternalGetName once the object is known to have no objectName or this one.
Escaped(o, named) ==
  Replace(IF IsApplication(o) THEN named \o <<"-", "a", "p", "p">> ELSE named,
          "/", "|")

InternalGetName(o) ==
  Escaped(o, IF ObjectName(o) = <<>>
             THEN InternalGetNameAsUnnamed(o) ELSE ObjectName(o))

\* QApplication::topLevelWidgets().contains(qobject_cast<QWidget*>(p))
IsTopLevelWidget(p) ==
  IsWidget(p) /\ \E i \in 1..Len(topLevelWidgets) : topLevelWidgets[i] = p

\* Prepended without the test of the parentless parent.
PrependedUntested(p, parent_name, name) ==
  IF parent_name = <<>> THEN <<>> ELSE parent_name \o <<"/">> \o name

\* One pass of the loop of GetName: the name with the parent's in front, or
\* the empty string of a return.
Prepended(p, parent_name, name) ==
  IF parent_name = <<>> THEN <<>>
  ELSE IF Parent(p) = Null /\ ~IsTopLevelWidget(p) THEN <<>>
  ELSE parent_name \o <<"/">> \o name

RECURSIVE GetNameLoop(_, _)
\* The loop of GetName over the parents, entered with p and the name so far
\* (empty once the function has returned QString()).
GetNameLoop(name, p) ==
  IF p = Null \/ name = <<>> THEN name
  ELSE GetNameLoop(Prepended(p, InternalGetName(p), name), Parent(p))

GetName(o) == GetNameLoop(InternalGetName(o), Parent(o))

\* ---------------------------------------------------------------- GetObject
\* name == names[j] || alt_name == names[j]
Matches(o, segment) ==
  InternalGetName(o) = segment \/ InternalGetNameAsUnnamed(o) = segment

RECURSIVE TopLevelScan(_, _)
\* The loop over the top-level widgets from index i (0-based): the first one
\* that matches, or Null.
TopLevelScan(i, segment) ==
  IF i = Len(topLevelWidgets) THEN Null
  ELSE IF Matches(topLevelWidgets[i + 1], segment) THEN topLevelWidgets[i + 1]
  ELSE TopLevelScan(i + 1, segment)

RECURSIVE ScanChildren(_, _, _)
\* The loop over the children from index k (0-based) with objectName as it is
\* now.  At the last child without a match and a leading '0', objectName[0]
\* becomes '1' and k is set to 0; the loop's ++k then continues at index 1.
ScanChildren(list, k, segment) ==
  IF k = Len(list) THEN Null
  ELSE IF Matches(list[k + 1], segment) THEN list[k + 1]
  ELSE IF k = Len(list) - 1 /\ segment # <<>> /\ segment[1] = "0"
       THEN ScanChildren(list, 0 + 1, <<"1">> \o Tail(segment))
       ELSE ScanChildren(list, k + 1, segment)

\* AfterScan without the `result = 0` that precedes the scan.
AfterScanKeepsResult(result, lastObject, found) ==
  [result |-> IF found # Null THEN found ELSE result,
   lastObject |-> IF found # Null THEN found ELSE lastObject]

\* result and lastObject after the scan of the children for one segment.
AfterScan(result, lastObject, found) ==
  [result |-> found,
   lastObject |-> IF found # Null THEN found ELSE lastObject]

RECURSIVE Descend(_, _, _)
\* The loop over names[j], j >= 1 (0-based), entered with result and
\* lastObject in r; its value is the pair after the last segment.
Descend(r, names, j) ==
  IF j >= Len(names) THEN r
  ELSE Descend(AfterScan(r.result, r.lastObject,
                         ScanChildren(IF r.result # Null
                                      THEN Children(r.result) ELSE <<>>,
                                      0, names[j + 1])),
               names, j + 1)

\* result and lastObject where GetObject tests `if (result)`, for the
\* segments of Name.
ResolveNames(names) ==
  Descend(AfterScan(Null, Null, TopLevelScan(0, names[1])), names, 1)

Resolve(Name) == ResolveNames(Split(Name))

RECURSIVE FindChildren(_, _, _)
\* QObject::findChildren<QObject*>(name) over the children in list: the
\* descendants, each before its own children, whose objectName is name; all
\* of them when all is TRUE (no name given).
FindChildren(list, name, all) ==
  IF list = <<>> THEN <<>>
  ELSE (IF all \/ ObjectName(Head(list)) = name THEN <<Head(list)>> ELSE <<>>)
       \o FindChildren(Children(Head(list)), name, all)
       \o FindChildren(Tail(list), name, all)

Line(prefix, text) == [prefix |-> prefix, text |-> text, more |-> 0]
MoreLine(prefix, n) == [prefix |-> prefix, text |-> <<>>, more |-> n]

MatchLimit(env) == IF env = <<>> THEN DefaultMatchLimit ELSE ToInt(env)

\* Shown with `cc <= matchLimit` for `cc < matchLimit`.
ShownOneMore(size, matchLimit) ==
  IF matchLimit <= 0 \/ size < matchLimit + 1 THEN size ELSE matchLimit + 1

\* The number of candidates a list shows.
Shown(size, matchLimit) ==
  IF matchLimit <= 0 \/ size < matchLimit THEN size ELSE matchLimit

\* The lines one candidate list writes: a line per match up to the limit, then
\* the "(and n more!)" line and the hint that follows it.
CandidateLines(prefix, matches, matchLimit) ==
  [cc \in 1..Shown(Len(matches), matchLimit) |->
     Line(prefix, GetName(matches[cc]))]
  \o (IF matchLimit > 0 /\ Len(matches) > matchLimit
      THEN <<MoreLine(prefix, Len(matches) - matchLimit),
             Line("Set PQOBJECTNAMING_MATCH_LIMIT", <<>>)>>
      ELSE <<>>)

\* The two candidate lists: the possible matches, and the available widgets
\* when there is no possible match.
Candidates(possible, available, matchLimit) ==
  CandidateLines("Possible match:", possible, matchLimit)
  \o CandidateLines("Available widget:",
                    IF possible = <<>> THEN available ELSE <<>>, matchLimit)

\* ErrorMessage as GetObject leaves it when it found nothing for a non-empty
\* Name.
Diagnostic(Name, segment, lastObject, env) ==
  <<Line("", <<>>), Line("Couldn't find object", Name)>>
  \o (IF lastObject # Null
      THEN <<Line("Found up to", GetName(lastObject))>>
           \o Candidates(FindChildren(Children(lastObject), segment, FALSE),
                         FindChildren(Children(lastObject), <<>>, TRUE),
                         MatchLimit(env))
      ELSE <<>>)

\* GetObject from its test `if (result)`: what it returns, its lastObject,
\* ErrorMessage afterwards, and the environment value it read.
Returned(r, Name, env, old) ==
  IF r.result # Null
  THEN [result |-> r.result, lastObject |-> r.lastObject,
        error |-> old, env |-> EnvNotRead]
  ELSE [result |-> Null, lastObject |-> r.lastObject,
        error |-> Diagnostic(Name, LastSegment(Name), r.lastObject, env),
        env |-> env]

\* GetObject(Name) with the environment variable at env and ErrorMessage at
\* old.
GetObject(Name, env, old) ==
  IF Name = <<>>
  THEN [result |-> Null, lastObject |-> Null, error |-> old, env |-> EnvNotRead]
  ELSE IF InternalGetName(QApp) = Name
  THEN [result |-> QApp, lastObject |-> Null, error |-> old, env |-> EnvNotRead]
  ELSE Returned(Resolve(Name), Name, env, old)

\* ------------------------------------------------------------ DumpHierarchy
RECURSIVE DumpListChildrenFirst(_)
\* DumpList, were an object's name appended after its children's.
DumpListChildrenFirst(list) ==
  IF list = <<>> THEN <<>>
  ELSE DumpListChildrenFirst(Children(Head(list))) \o <<GetName(Head(list))>>
       \o DumpListChildrenFirst(Tail(list))

RECURSIVE DumpList(_)
\* DumpHierarchy(object, results) over a list of objects: each object's name,
\* then its children's.
DumpList(list) ==
  IF list = <<>> THEN <<>>
  ELSE <<GetName(Head(list))>> \o DumpList(Children(Head(list)))
       \o DumpList(Tail(list))

DumpHierarchy(results) == results \o DumpList(topLevelWidgets)

\* --------------------------------------------------------------- the calls
RECURSIVE AncestorsOrSelf(_, _)
AncestorsOrSelf(p, o) ==
  IF o = Null THEN {} ELSE {o} \cup AncestorsOrSelf(p, p[o])

\* The objects are numbered in pre-order: each comes right after the subtree of
\* its previous sibling (or after its parent), so that children() and
\* topLevelWidgets() are in number order.  Every ordered forest has exactly one
\* such numbering.
IsForest(p) ==
  /\ \A n \in Nodes : p[n] < n
  /\ \A n \in Nodes \ {1} : p[n] = Null \/ p[n] \in AncestorsOrSelf(p, n - 1)

ChildrenOf(p, o) ==
  LET S == {n \in Nodes : p[n] = o}
      F[i \in 0..MaxObjects] ==
        IF i = 0 THEN <<>>
        ELSE IF i \in S THEN F[i - 1] \o <<i>> ELSE F[i - 1]
  IN F[MaxObjects]

NoCall ==
  [op |-> "none", object |-> Null, name |-> <<>>, env |-> EnvNotRead,
   result |-> Null, lastObject |-> Null, text |-> <<>>,
   before |-> <<>>, results |-> <<>>]

Init ==
  /\ parent \in {p \in [Nodes -> {Null} \cup Nodes] : IsForest(p)}
  /\ children = [o \in Nodes |-> ChildrenOf(parent, o)]
  /\ \E kind \in [Nodes -> Kinds] :
       /\ className = [o \in Nodes |-> kind[o].cls]
       /\ objectName = [o \in Nodes |-> kind[o].name]
       /\ visible = [o \in Nodes |-> kind[o].vis]
       \* Qt: the parent of a QWidget is a QWidget, and a widget below a
       \* widget that is not visible is not visible
       /\ \A o \in Nodes :
            (kind[o].cls = WidgetClass /\ parent[o] # Null)
              => /\ kind[parent[o]].cls = WidgetClass
                 /\ kind[o].vis => kind[parent[o]].vis
  /\ appObjectName \in AppNames
  /\ topLevelWidgets =
       SelectSeq(ChildrenOf(parent, Null), LAMBDA o : className[o] = WidgetClass)
  /\ ErrorMessage = <<>>
  /\ call = NoCall

\* QString name = pqObjectNaming::GetName(object);
CallGetName(o) ==
  /\ call' = [NoCall EXCEPT !.op = "GetName", !.object = o,
                            !.text = GetName(o)]
  /\ UNCHANGED <<tree, ErrorMessage>>

RECURSIVE Join(_)
Join(segments) ==
  IF Len(segments) = 1 THEN segments[1]
  ELSE segments[1] \o <<"/">> \o Join(Tail(segments))

\* A segment as it was recorded while the widget was invisible.
LeadingZero(segment) ==
  IF segment # <<>> /\ segment[1] = "1" THEN <<"0">> \o Tail(segment) ELSE segment

\* A name recorded while the widgets below its window were invisible, and one
\* recorded while its last widget was.
RecordedInvisible(Name) ==
  LET s == Split(Name)
  IN Join([i \in 1..Len(s) |-> IF i > 1 THEN LeadingZero(s[i]) ELSE s[i]])

RecordedLastInvisible(Name) ==
  LET s == Split(Name)
  IN Join([i \in 1..Len(s) |-> IF i > 1 /\ i = Len(s) THEN LeadingZero(s[i]) ELSE s[i]])

\* The names handed to GetObject: the empty one, every name GetName gives, such
\* a name as recorded while widgets of its path were invisible, such a name
\* followed by a segment "a" or "z" or by the segments "z/a", and "z" alone.
NamesFrom(given) ==
  {<<>>, <<"z">>} \cup given
  \cup {RecordedInvisible(n) : n \in given}
  \cup {RecordedLastInvisible(n) : n \in given}
  \cup {n \o tail : n \in given,
                    tail \in {<<"/", "a">>, <<"/", "z">>, <<"/", "z", "/", "a">>}}

NameInputs == NamesFrom({GetName(o) : o \in Objects} \ {<<>>})

\* QObject* object = pqObjectNaming::GetObject(Name);
CallGetObject(Name, env) ==
  \E r \in {GetObject(Name, env, ErrorMessage)} :
     /\ call' = [NoCall EXCEPT !.op = "GetObject", !.name = Name,
                               !.env = r.env, !.result = r.result,
                               !.lastObject = r.lastObject]
     /\ ErrorMessage' = r.error
     /\ UNCHANGED tree

\* pqObjectNaming::DumpHierarchy(results);
CallDumpHierarchy(results) ==
  /\ call' = [NoCall EXCEPT !.op = "DumpHierarchy", !.before = results,
                            !.results = DumpHierarchy(results)]
  /\ UNCHANGED <<tree, ErrorMessage>>

Next ==
  \/ \E o \in Objects : CallGetName(o)
  \/ \E Name \in NameInputs, env \in MatchLimitEnvs : CallGetObject(Name, env)
  \/ \E results \in ResultsInputs : CallDumpHierarchy(results)

\* Any sequence of calls on a tree that does not change.
Spec == Init /\ [][Next]_vars

\* One call on every tree: each function applied to each of its inputs.
FirstCall == call.op = "none" /\ Next
SpecCall == Init /\ [][FirstCall]_vars

\* Any sequence of calls on the trees whose objects are all unnamed widgets.
SeqInit == Init /\ \A o \in Nodes : className[o] = WidgetClass /\ objectName[o] = <<>>
SpecSeq == SeqInit /\ [][Next]_vars

\* ---------------------------------------------------------------- the claims
RECURSIVE ChainLength(_)
\* The number of objects on the parent chain of an object, itself included.
ChainLength(o) == IF o = Null THEN 0 ELSE 1 + ChainLength(Parent(o))

RECURSIVE Root(_)
\* The top-most object of the parent chain.
Root(o) == IF Parent(o) = Null THEN o ELSE Root(Parent(o))

Descendants(o) == {n \in Nodes : n # o /\ o \in AncestorsOrSelf(parent, n)}

\* The first object of a list that a segment matches, or Null.
FirstMatching(list, segment) ==
  IF \E i \in 1..Len(list) : Matches(list[i], segment)
  THEN list[CHOOSE i \in 1..Len(list) :
         Matches(list[i], segment) /\ \A m \in 1..(i - 1) : ~Matches(list[m], segment)]
  ELSE Null

\* What GetObject returns for the first n segments of a name.
Reached(names, n) == GetObject(Join(SubSeq(names, 1, n)), <<>>, <<>>).result

IsGetObjectOfPath ==
  call.op = "GetObject" /\ call.name # <<>> /\ call.name # InternalGetName(QApp)

\* C1: for every object x below a registered top-level widget, GetObject of
\* GetName(x) returns x, whatever mix of named and unnamed siblings there is.
\* (Stated for the trees in which no two objects have the same objectName.)
C1_RoundTrip ==
  (/\ call.op = "GetObject"
   /\ \A m, n \in Nodes : m # n /\ objectName[m] # <<>> => objectName[m] # objectName[n])
  => \A x \in Nodes :
       IsTopLevelWidget(Root(x)) /\ call.name = GetName(x) => call.result = x

\* C2: when a segment after the first begins with '0' and no child of the
\* object reached so far matches it, the segment resolves to the first child,
\* at any index, that matches the segment with '1' for its leading '0'.
C2_RetryFindsFirstVisible ==
  IsGetObjectOfPath
  => LET names == Split(call.name)
     IN \A j \in 2..Len(names) :
          (/\ Reached(names, j - 1) \in Nodes
           /\ names[j] # <<>> /\ names[j][1] = "0"
           /\ FirstMatching(Children(Reached(names, j - 1)), names[j]) = Null)
          => Reached(names, j)
               = FirstMatching(Children(Reached(names, j - 1)),
                               <<"1">> \o Tail(names[j]))

\* The unnamed siblings of an object that have its type and its visibility
\* class, in sibling order.
Group(o) ==
  SelectSeq(Siblings(o),
            LAMBDA m : /\ ClassName(m) = ClassName(o)
                       /\ ObjectName(m) = <<>>
                       /\ (IsWidget(m) /\ IsVisible(m)) = (IsWidget(o) /\ IsVisible(o)))

\* The synthesized names of an object that carry the ordinal n.
WithOrdinal(o, n) ==
  {pre \o ClassName(o) \o Number(n) : pre \in {<<>>, <<"0">>, <<"1">>}}

IsGetNameOfUnnamed ==
  call.op = "GetName" /\ call.object \in Nodes /\ ObjectName(call.object) = <<>>

\* C3: the N unnamed siblings of one type and one visibility class have the
\* ordinals 0, 1, ..., N-1 in sibling order, whatever is interleaved with them.
C3_OrdinalsInSiblingOrder ==
  (IsGetNameOfUnnamed /\ \E i \in 1..Len(Siblings(call.object)) :
                           Siblings(call.object)[i] = call.object)
  => \A i \in 1..Len(Group(call.object)) :
       LET o == Group(call.object)[i]
       IN /\ InternalGetNameAsUnnamed(o) \in WithOrdinal(o, i - 1)
          /\ (o = call.object /\ call.text # <<>>)
               => LastSegment(call.text) \in WithOrdinal(o, i - 1)

\* GetName of the last of at least two unnamed siblings of one group, with a
\* sibling that is not of the group between two that are.
C3_Witness ==
  /\ IsGetNameOfUnnamed
  /\ call.text # <<>>
  /\ LET s == Siblings(call.object)
         g == Group(call.object)
         in_group(m) == \E i \in 1..Len(g) : g[i] = m
     IN /\ Len(g) >= 2
        /\ g[Len(g)] = call.object
        /\ \E i, j, k \in 1..Len(s) :
             /\ i < j /\ j < k
             /\ in_group(s[i]) /\ ~in_group(s[j]) /\ s[k] = call.object

\* The synthesized name with the given text before the type tag.
HasForm(segment, o, pre) ==
  \E n \in 0..MaxObjects : segment = pre \o ClassName(o) \o Number(n)

\* C4 as claimed: the synthesized name of an unnamed object begins with '1'
\* when the object is a visible widget and with '0' otherwise, an object that
\* is no widget included; the type tag and the ordinal follow.
C4_LeadingDigit ==
  IsGetNameOfUnnamed
  => LET o == call.object
         pre == IF IsWidget(o) /\ IsVisible(o) THEN <<"1">> ELSE <<"0">>
     IN /\ HasForm(InternalGetNameAsUnnamed(o), o, pre)
        /\ call.text # <<>> => HasForm(LastSegment(call.text), o, pre)

\* C4 as amended: the synthesized name of an unnamed widget begins with '1'
\* when the widget is visible and with '0' when it is not; that of an object
\* that is no widget has no such digit and begins with the type tag.
C4_LeadingDigitOfWidgets ==
  IsGetNameOfUnnamed
  => LET o == call.object
         pre == IF ~IsWidget(o) THEN <<>>
                ELSE IF IsVisible(o) THEN <<"1">> ELSE <<"0">>
     IN /\ HasForm(InternalGetNameAsUnnamed(o), o, pre)
        /\ call.text # <<>> => HasForm(LastSegment(call.text), o, pre)

\* GetName has named an unnamed object that is no widget.
C4_Witness ==
  IsGetNameOfUnnamed /\ ~IsWidget(call.object) /\ call.text # <<>>

\* C5 as claimed: GetName returns the empty string whenever the root of the
\* object's parent chain, the object itself when it has no parent, is no
\* registered top-level widget.
C5_EmptyUnlessRootIsTopLevel ==
  (call.op = "GetName" /\ call.object \in Nodes
     /\ ~IsTopLevelWidget(Root(call.object)))
  => call.text = <<>>

\* C5 as amended: GetName returns the empty string whenever the object has a
\* parent and the root of its parent chain is no registered top-level widget.
C5_EmptyUnlessAncestorIsTopLevel ==
  (call.op = "GetName" /\ call.object \in Nodes
     /\ Parent(call.object) # Null
     /\ ~IsTopLevelWidget(Root(call.object)))
  => call.text = <<>>

\* GetName of an object below a parentless object that is no top-level widget.
C5_Witness ==
  /\ call.op = "GetName" /\ call.object \in Nodes
  /\ Parent(call.object) # Null
  /\ ~IsTopLevelWidget(Root(call.object))
  /\ call.text = <<>>

\* C6: after a GetObject that returned null, the empty Name included,
\* lastErrorMessage() is the diagnostic of that call: it holds the line
\* "Couldn't find object" with the call's Name.
C6_LastErrorIsOfLastFailure ==
  (call.op = "GetObject" /\ call.result = Null)
  => \E i \in 1..Len(ErrorMessage) :
       ErrorMessage[i] = Line("Couldn't find object", call.name)

\* The lines of ErrorMessage that list a candidate, and its "more" lines.
Listed(prefix) ==
  {i \in 1..Len(ErrorMessage) :
     ErrorMessage[i].prefix = prefix /\ ErrorMessage[i].more = 0}
MoreLines(prefix) ==
  {i \in 1..Len(ErrorMessage) :
     ErrorMessage[i].prefix = prefix /\ ErrorMessage[i].more # 0}

\* A list of M candidates under the limit L.
Capped(prefix, M, L) ==
  /\ Cardinality(Listed(prefix)) = IF L > 0 /\ L < M THEN L ELSE M
  /\ Cardinality(MoreLines(prefix)) = IF L > 0 /\ M > L THEN 1 ELSE 0
  /\ \A i \in MoreLines(prefix) : ErrorMessage[i].more = M - L

\* The limit of the failed call: 20 when the variable is unset or empty.
LimitOfCall == IF call.env = <<>> THEN 20 ELSE ToInt(call.env)

\* The objects below lastObject with the last segment for objectName, and the
\* number of objects the fallback list has to choose from.
PossibleOfCall ==
  IF call.lastObject = Null THEN {}
  ELSE {n \in Descendants(call.lastObject) :
          ObjectName(n) = LastSegment(call.name)}
AvailableOfCall ==
  IF call.lastObject = Null \/ PossibleOfCall # {} THEN {}
  ELSE Descendants(call.lastObject)

\* C7: a failed GetObject with M candidates and limit L lists min(M, L) of
\* them and one "(and M-L more!)" line exactly when M > L, for L > 0, and lists
\* all M without such a line for L = 0; for the "Possible match" list and for
\* the "Available widget" list that replaces it when nothing matches.
C7_DiagnosticCap ==
  (IsGetObjectOfPath /\ call.result = Null /\ LimitOfCall >= 0)
  => /\ Capped("Possible match:", Cardinality(PossibleOfCall), LimitOfCall)
     /\ Capped("Available widget:", Cardinality(AvailableOfCall), LimitOfCall)

\* A failed GetObject with more possible matches than the limit allows.
C7_Witness ==
  /\ IsGetObjectOfPath /\ call.result = Null
  /\ LimitOfCall > 0
  /\ Cardinality(PossibleOfCall) > LimitOfCall
  /\ Cardinality(MoreLines("Possible match:")) = 1

\* C8: a non-empty name GetName returns has as many '/'-separated segments as
\* the object's parent chain has objects, whatever '/' the objectNames hold.
C8_SegmentsEqualChain ==
  (call.op = "GetName" /\ call.text # <<>>)
  => Cardinality({i \in 1..Len(call.text) : call.text[i] = "/"}) + 1
       = ChainLength(call.object)

\* GetName of an object with a parent, below or at an objectName with a '/'.
C8_Witness ==
  /\ call.op = "GetName" /\ call.text # <<>>
  /\ call.object \in Nodes /\ Parent(call.object) # Null
  /\ \E a \in AncestorsOrSelf(parent, call.object) :
       \E i \in 1..Len(ObjectName(a)) : ObjectName(a)[i] = "/"

\* The names of the objects below the top-level widgets, in number order (the
\* pre-order of the forest).
NamesInPreOrder ==
  LET F[i \in 0..MaxObjects] ==
        IF i = 0 THEN <<>>
        ELSE IF IsTopLevelWidget(Root(i)) THEN F[i - 1] \o <<GetName(i)>>
        ELSE F[i - 1]
  IN F[MaxObjects]

\* C9: DumpHierarchy keeps the entries of the sequence and appends, for every
\* top-level widget in order, the name of every object of its subtree in
\* pre-order; one top-level widget with k descendants adds k+1 entries, its
\* own first.
C9_DumpIsPreOrder ==
  call.op = "DumpHierarchy"
  => /\ call.results = call.before \o NamesInPreOrder
     /\ Len(topLevelWidgets) = 1
          => /\ Len(call.results) = Len(call.before) + 1
                  + Cardinality(Descendants(topLevelWidgets[1]))
             /\ call.results[Len(call.before) + 1] = GetName(topLevelWidgets[1])

\* DumpHierarchy into a sequence that is not empty, of a single top-level
\* widget with two children.
C9_Witness ==
  /\ call.op = "DumpHierarchy" /\ call.before # <<>>
  /\ Len(topLevelWidgets) = 1
  /\ Len(Children(topLevelWidgets[1])) = 2
  /\ Len(call.results) = Len(call.before) + 3

\* No object of the list matches the segment, nor (below the top level) the
\* segment with '1' for its leading '0'.
NoCandidate(list, segment, retry) ==
  \A k \in 1..Len(list) :
    /\ ~Matches(list[k], segment)
    /\ (retry /\ segment # <<>> /\ segment[1] = "0")
         => ~Matches(list[k], <<"1">> \o Tail(segment))

\* The texts of the "Found up to" lines of ErrorMessage.
FoundUpTo ==
  {ErrorMessage[i].text :
     i \in {k \in 1..Len(ErrorMessage) : ErrorMessage[k].prefix = "Found up to"}}

\* C10: when a segment has no match GetObject returns null whatever follows;
\* the object it remembers is the one the segment before resolved to and the
\* "Found up to" line names it; there is no such line when the first segment has
\* no match.
C10_StopsAtFirstUnmatched ==
  IsGetObjectOfPath
  => LET names == Split(call.name)
     IN /\ NoCandidate(topLevelWidgets, names[1], FALSE)
             => /\ call.result = Null
                /\ call.lastObject = Null
                /\ FoundUpTo = {}
        /\ \A i \in 2..Len(names) :
             (/\ Reached(names, i - 1) \in Nodes
              /\ NoCandidate(Children(Reached(names, i - 1)), names[i], TRUE))
             => /\ call.result = Null
                /\ call.lastObject = Reached(names, i - 1)
                /\ FoundUpTo = {GetName(Reached(names, i - 1))}

\* A GetObject whose path has no match at a segment that is neither its first
\* nor its last.
C10_Witness ==
  /\ IsGetObjectOfPath /\ call.result = Null
  /\ LET names == Split(call.name)
     IN \E i \in 2..(Len(names) - 1) :
          /\ Reached(names, i - 1) \in Nodes
          /\ NoCandidate(Children(Reached(names, i - 1)), names[i], TRUE)

====
